---- MODULE Spec2Model ----
(***************************************************************************)
(* Model of the william bot: message ingestion with threshold-triggered    *)
(* summarize events, topic-scoped cumulative summarization, the context    *)
(* builder, response delivery with fallback, and the midnight scheduler.   *)
(***************************************************************************)
EXTENDS Integers, Sequences, FiniteSets, TLC

(* ------------------------------ bounds --------------------------------- *)
\* number of inbound platform messages (one goroutine each)
NumTasks == 3
\* number of inbound messages that mention the bot
MaxMentions == 1
\* largest configured limits.max_msg_buffer that is explored
MaxThreshold == 3
\* rows of the messages table in the summarization specification
MaxMessages == 2
\* SummarizeEvents published in the summarization specification
MaxEvents == 1
\* largest configured limits.summarize_max_messages that is explored
MaxSummarizeMax == 2
\* largest configured limits.recent_messages_limit that is explored
MaxRecentLimit == 2
\* MentionEvents whose reply is delivered
MaxDeliveries == 2
\* clock slots per minute, minutes per day and days of a scheduler run
MinuteLen == 2
DayLen == 3
MaxDays == 2
\* slots by which the delivery of a tick can lag its nominal time
MaxDelay == 1

(* --------------------------- value domains ----------------------------- *)
Chats == {42, 7}
Threads == {0, 1}
Users == {1, 2}
Senders == {1}

\* a *int64: nil is the empty tuple, &v the one-element tuple
Nil == <<>>
Ptr(v) == <<v>>
TopicPtrs == {Nil} \cup {Ptr(v) : v \in Threads}
Keys == Chats \X TopicPtrs

\* texts are sequences of characters; " " is the white space
Chars == {"@", "w", " ", "a"}
MaxTextLen == 6
Texts == UNION {[1..n -> Chars] : n \in 0..MaxTextLen}
MentionUsernames == {<<"@", "w">>, <<"@">>, <<>>}
DefaultResponses == {<<"a">>, <<>>}
\* msg.ReplyToMessage: nil, or the replied-to message with its text and
\* whether its author is the bot
ReplyToMessages ==
    {Nil} \cup {Ptr([Text |-> <<"a">>, IsBot |-> b]) : b \in BOOLEAN}

VARIABLES
    maxMsgBuffer,       \* config.App.Limits.MaxMsgBuffer
    allowed_chats,      \* table allowed_chats
    messages,           \* table messages (append-only), a sequence of rows
    message_counters,   \* table message_counters: (chat, topic) -> count
    summarizeTopic,     \* events published on the bus topic "summarize"
    mentionTopic,       \* events published on the bus topic "mention"
    tasks,              \* one handleMessage goroutine per inbound message
    errorLogged,        \* some store or publish failure was logged
    summarizeMaxMessages, \* config.App.Limits.SummarizeMaxMessages
    chat_summaries,     \* table chat_summaries, a set of rows
    user_summaries,     \* table user_summaries, a set of rows
    nextSummaryID,      \* BIGSERIAL of chat_summaries.id
    summarizeCursor,    \* events of "summarize" delivered to the handler
    attempts,           \* summarizeTopicMessages call of each handler
    bulk,               \* SummarizeAllActiveChats pass of the midnight handler
    recentMessagesLimit, \* config.App.Limits.RecentMessagesLimit
    builder,            \* BuildContextForResponse call of the mention handler
    delivery,           \* sendResponse call of the mention handler
    scheduler,          \* the runMidnightScheduler goroutine and its clock
    extraction          \* extractUserQuery call of the mention handler

ingestVars == <<maxMsgBuffer, allowed_chats, messages, message_counters,
                summarizeTopic, mentionTopic, tasks, errorLogged>>

sumVars == <<summarizeMaxMessages, chat_summaries, user_summaries,
             nextSummaryID, summarizeCursor, attempts, bulk>>

restVars == <<recentMessagesLimit, builder, delivery, scheduler, extraction>>

vars == <<ingestVars, sumVars, restVars>>

(* ---------------------------- ingestion -------------------------------- *)
TaskIds == 1..NumTasks

\* telego.Message as far as handleMessage reads it
InboundMessages ==
    [chat : Chats, thread : Threads, hasFrom : {TRUE}, from : Senders,
     hasText : BOOLEAN, fromBot : BOOLEAN, isMention : BOOLEAN]

NoMsg == [chat |-> 0, thread |-> 0, hasFrom |-> FALSE, from |-> 0,
          hasText |-> FALSE, fromBot |-> FALSE, isMention |-> FALSE]

\* msg is the goroutine's message while it runs; mention is the message
\* captured by the `go l.handleMention` goroutine until it has published
NewTask == [pc |-> "new", msg |-> NoMsg, mention |-> NoMsg]

\* the mention goroutine of a task has run
SpentMention == [NoMsg EXCEPT !.isMention = TRUE]

MentionCount ==
    Cardinality({u \in TaskIds : tasks[u].mention # NoMsg
                                  \/ tasks[u].msg.isMention})

EndTask(t) == [tasks EXCEPT ![t].pc = "done", ![t].msg = NoMsg]

getTopicID(msg) == Ptr(msg.thread)

KeyOf(msg) == <<msg.chat, getTopicID(msg)>>

\* an early return that looks at the text only
SkipMessage_textOnly(msg) == ~msg.hasText

\* the early return of handleMessage on empty text or bot author
SkipMessage(msg) == (~msg.hasText) \/ msg.fromBot

IsAllowedChat(chat) == chat \in allowed_chats

SaveMessage(row) == Append(messages, [row EXCEPT !.id = Len(messages) + 1])

\* single upsert-and-return: the new value is stored and returned atomically
IncrementMessageCounter(key) ==
    [message_counters EXCEPT ![key] = @ + 1]

ResetMessageCounter(key) ==
    [message_counters EXCEPT ![key] = 0]

ResetAllMessageCounters == [k \in Keys |-> 0]

\* a comparison that lets the counter pass the threshold by one
ThresholdReached_strict(count) == count > maxMsgBuffer

ThresholdReached(count) == count >= maxMsgBuffer

SummarizeEvent(chatID, topicID) == [ChatID |-> chatID, TopicID |-> topicID]

MentionEvent(msg) ==
    [ChatID |-> msg.chat, TopicID |-> getTopicID(msg), UserID |-> msg.from]

\* `msg.From.IsBot` is evaluated for a message with text: without a sender
\* the nil pointer is dereferenced and the goroutine panics
Panics(msg) == msg.hasText /\ ~msg.hasFrom

\* handleMessage for the message m up to the first store write: the filter
\* and the allow-list check
handleMessage_Filter(t, m, allowErr) ==
    /\ tasks[t].pc = "new"
    /\ \A u \in TaskIds : u < t => tasks[u].pc # "new"
    /\ m.isMention => MentionCount < MaxMentions
    /\ Panics(m) => ~allowErr
    /\ tasks' = IF Panics(m)
                THEN [tasks EXCEPT ![t].pc = "panic"]
                ELSE IF SkipMessage(m) \/ allowErr \/ ~IsAllowedChat(m.chat)
                THEN EndTask(t)
                ELSE [tasks EXCEPT ![t].pc = "save", ![t].msg = m]
    /\ errorLogged' = (errorLogged \/ (~SkipMessage(m) /\ allowErr))
    /\ UNCHANGED <<maxMsgBuffer, allowed_chats, messages, message_counters,
                   summarizeTopic, mentionTopic>>
    /\ UNCHANGED <<sumVars, restVars>>

\* an update arrives and `go l.handleMessage` runs up to the allow-list check
handleMessage_Receive(t) ==
    \E m \in InboundMessages, allowErr \in BOOLEAN :
       handleMessage_Filter(t, m, allowErr)

\* the handler goes on after a failed SaveMessage
ReturnsOnSaveError_ignored(err) == FALSE

\* `if err := l.repo.SaveMessage(...); err != nil { ...; return }`
ReturnsOnSaveError(err) == err

\* repo.SaveMessage, then isMentionOrReply and `go l.handleMention`
handleMessage_Save(t) ==
    /\ tasks[t].pc = "save"
    /\ \E err \in BOOLEAN :
          /\ errorLogged' = (errorLogged \/ err)
          /\ messages' =
                IF err THEN messages
                ELSE SaveMessage(
                        [id |-> 0, chat_id |-> tasks[t].msg.chat,
                         topic_id |-> getTopicID(tasks[t].msg),
                         user_id |-> tasks[t].msg.from, is_bot |-> FALSE])
          /\ tasks' = IF ReturnsOnSaveError(err)
                      THEN EndTask(t)
                      ELSE [tasks EXCEPT ![t].pc = "inc",
                                         ![t].mention =
                                            IF tasks[t].msg.isMention
                                            THEN tasks[t].msg ELSE NoMsg]
    /\ UNCHANGED <<maxMsgBuffer, allowed_chats, message_counters,
                   summarizeTopic, mentionTopic>>
    /\ UNCHANGED <<sumVars, restVars>>

\* the goroutine started for a mention: publishMentionEvent
handleMention(t) ==
    /\ tasks[t].mention \notin {NoMsg, SpentMention}
    /\ tasks' = [tasks EXCEPT ![t].mention = SpentMention]
    /\ \E err \in BOOLEAN :
          IF err
          THEN /\ errorLogged' = TRUE
               /\ UNCHANGED mentionTopic
          ELSE /\ UNCHANGED errorLogged
               /\ mentionTopic' =
                     Append(mentionTopic, MentionEvent(tasks[t].mention))
    /\ UNCHANGED <<maxMsgBuffer, allowed_chats, messages, message_counters,
                   summarizeTopic>>
    /\ UNCHANGED <<sumVars, restVars>>

\* repo.IncrementMessageCounter and the comparison with the threshold
handleMessage_Increment(t) ==
    /\ tasks[t].pc = "inc"
    /\ \E err \in BOOLEAN :
          IF err
          THEN /\ tasks' = EndTask(t)
               /\ errorLogged' = TRUE
               /\ UNCHANGED message_counters
          ELSE LET key == KeyOf(tasks[t].msg)
                   count == IncrementMessageCounter(key)[key]
               IN /\ message_counters' = IncrementMessageCounter(key)
                  /\ UNCHANGED errorLogged
                  /\ tasks' = IF ThresholdReached(count)
                              THEN [tasks EXCEPT ![t].pc = "reset"]
                              ELSE EndTask(t)
    /\ UNCHANGED <<maxMsgBuffer, allowed_chats, messages,
                   summarizeTopic, mentionTopic>>
    /\ UNCHANGED <<sumVars, restVars>>

\* repo.ResetMessageCounter, a second store call after the increment
handleMessage_Reset(t) ==
    /\ tasks[t].pc = "reset"
    /\ \E err \in BOOLEAN :
          IF err
          THEN /\ tasks' = EndTask(t)
               /\ errorLogged' = TRUE
               /\ UNCHANGED message_counters
          ELSE /\ UNCHANGED errorLogged
               /\ message_counters' = ResetMessageCounter(KeyOf(tasks[t].msg))
               /\ tasks' = [tasks EXCEPT ![t].pc = "publish"]
    /\ UNCHANGED <<maxMsgBuffer, allowed_chats, messages,
                   summarizeTopic, mentionTopic>>
    /\ UNCHANGED <<sumVars, restVars>>

\* publishSummarizeEvent: a failure is logged, the task ends either way
publishSummarizeEvent(t) ==
    /\ tasks[t].pc = "publish"
    /\ tasks' = EndTask(t)
    /\ \E err \in BOOLEAN :
          IF err
          THEN /\ errorLogged' = TRUE
               /\ UNCHANGED summarizeTopic
          ELSE /\ UNCHANGED errorLogged
               /\ summarizeTopic' =
                     Append(summarizeTopic,
                            SummarizeEvent(tasks[t].msg.chat,
                                           getTopicID(tasks[t].msg)))
    /\ UNCHANGED <<maxMsgBuffer, allowed_chats, messages, message_counters,
                   mentionTopic>>
    /\ UNCHANGED <<sumVars, restVars>>

IdleAttempt ==
    [pc |-> "idle", chatID |-> 0, topicKey |-> [hasValue |-> FALSE, value |-> 0],
     batch |-> <<>>, existing |-> Nil, profiles |-> {}, wrote |-> FALSE,
     llmErr |-> FALSE]

IdleBulk ==
    [pc |-> "idle", since |-> 0, active |-> {}, chats |-> {},
     groups |-> {}, planned |-> {}, saved |-> {}, failed |-> {},
     result |-> "none"]

Workers == {"summarize", "midnight"}

IdleBuilder ==
    [pc |-> "idle", ChatID |-> 0, TopicID |-> Nil, chatSummary |-> Nil,
     lastSummaryID |-> 0, RecentMessages |-> <<>>]

\* gpt.MentionResponse: a reaction emoji or "", the should-reply flag, and
\* whether the reply text is non-empty
NoResponse == [hasReaction |-> FALSE, ShouldReply |-> FALSE, hasText |-> FALSE]

IdleDelivery ==
    [pc |-> "idle", handled |-> 0, ChatID |-> 0, TopicID |-> Nil,
     MessageThreadID |-> 0, sends |-> <<>>, topicID |-> Nil, persisted |-> 0,
     returned |-> "none", generated |-> FALSE, response |-> NoResponse,
     reaction |-> "none"]

Days == 1..MaxDays

\* the process starts at slot `start`; the first tick is due a minute later
NewScheduler(start) ==
    [pc |-> "wait", due |-> start + MinuteLen, now |-> start, busy |-> FALSE,
     published |-> [d \in Days |-> 0], resets |-> [d \in Days |-> 0],
     handled |-> 0]

\* the payload of a MentionEvent: the text and the optional reply context
NoMentionEvent == [Text |-> <<>>, ReplyToText |-> Nil, ReplyToIsBot |-> Nil]

\* config.App.App.MentionUsername and DefaultResponse, no query extracted
NewExtraction(mention, default) ==
    [pc |-> "idle", MentionUsername |-> mention, DefaultResponse |-> default,
     ReplyToMessage |-> Nil, event |-> NoMentionEvent,
     text |-> <<>>, query |-> <<>>, ReplyToText |-> Nil, ReplyToIsBot |-> Nil]

InitRest ==
    /\ \E mention \in MentionUsernames, default \in DefaultResponses :
          extraction = NewExtraction(mention, default)
    /\ recentMessagesLimit \in 1..MaxRecentLimit
    /\ builder = IdleBuilder
    /\ delivery = IdleDelivery
    /\ \E start \in 0..(MinuteLen - 1) : scheduler = NewScheduler(start)

InitSum ==
    /\ summarizeMaxMessages \in 1..MaxSummarizeMax
    /\ chat_summaries = {}
    /\ user_summaries = {}
    /\ nextSummaryID = 1
    /\ summarizeCursor = 0
    /\ attempts = [w \in Workers |-> IdleAttempt]
    /\ bulk = IdleBulk

Init ==
    /\ maxMsgBuffer \in 1..MaxThreshold
    /\ allowed_chats = {42}
    /\ messages = <<>>
    /\ message_counters = [k \in Keys |-> 0]
    /\ summarizeTopic = <<>>
    /\ mentionTopic = <<>>
    /\ tasks = [t \in TaskIds |-> NewTask]
    /\ errorLogged = FALSE
    /\ InitSum
    /\ InitRest

\* the configuration of the other components is pinned
InitIngestion ==
    /\ Init
    /\ extraction = NewExtraction(<<"@", "w">>, <<"a">>)
    /\ summarizeMaxMessages = MaxSummarizeMax
    /\ recentMessagesLimit = MaxRecentLimit
    /\ scheduler = NewScheduler(0)

\* Listener.Start spawns `go l.handleMessage` per update: tasks interleave
Next ==
    \/ \E t \in TaskIds : handleMessage_Receive(t)
    \/ \E t \in TaskIds : handleMessage_Save(t)
    \/ \E t \in TaskIds : handleMention(t)
    \/ \E t \in TaskIds : handleMessage_Increment(t)
    \/ \E t \in TaskIds : handleMessage_Reset(t)
    \/ \E t \in TaskIds : publishSummarizeEvent(t)

Spec == InitIngestion /\ [][Next]_vars

(* ----------------------- sequential ingestion -------------------------- *)
\* no handleMessage goroutine is between its first and its last store call
Quiescent == \A t \in TaskIds : tasks[t].pc \in {"new", "done"}

\* the next update is handled only after the previous handler returned
handleMessage_ReceiveNext(t) == Quiescent /\ handleMessage_Receive(t)

NextSeq ==
    \/ \E t \in TaskIds : handleMessage_ReceiveNext(t)
    \/ \E t \in TaskIds : handleMessage_Save(t)
    \/ \E t \in TaskIds : handleMention(t)
    \/ \E t \in TaskIds : handleMessage_Increment(t)
    \/ \E t \in TaskIds : handleMessage_Reset(t)
    \/ \E t \in TaskIds : publishSummarizeEvent(t)

SpecSeq == InitIngestion /\ [][NextSeq]_vars

(* ------------------------ claims on ingestion -------------------------- *)
\* number of user messages persisted for a (chat, topic) key
Stored(key) ==
    Cardinality({i \in DOMAIN messages :
                    /\ messages[i].chat_id = key[1]
                    /\ messages[i].topic_id = key[2]
                    /\ ~messages[i].is_bot})

\* number of SummarizeEvents published for a (chat, topic) key
Published(key) ==
    Cardinality({i \in DOMAIN summarizeTopic :
                    /\ summarizeTopic[i].ChatID = key[1]
                    /\ summarizeTopic[i].TopicID = key[2]})

\* C1: when k messages are ingested one after another into one (chat, topic)
\* without any store or publish failure, exactly floor(k/T) SummarizeEvents
\* have been published for the key, and the key's counter is 0 right after
\* the reset that precedes each publication and after the publication.
C1_SequentialTriggers ==
    /\ (Quiescent /\ ~errorLogged) =>
          \A key \in Keys :
             /\ Published(key) = Stored(key) \div maxMsgBuffer
             /\ message_counters[key] = Stored(key) % maxMsgBuffer
    /\ \A t \in TaskIds :
          tasks[t].pc = "publish" => message_counters[KeyOf(tasks[t].msg)] = 0

C1_Witness ==
    /\ Quiescent /\ ~errorLogged
    /\ maxMsgBuffer = 2
    /\ Stored(<<42, Ptr(1)>>) = 3
    /\ Published(<<42, Ptr(1)>>) = 1
    /\ message_counters[<<42, Ptr(1)>>] = 1

\* C2: under every interleaving of concurrent handleMessage goroutines on
\* one (chat, topic), exactly floor(k/T) SummarizeEvents are published and
\* no increment is lost by a reset (the counter holds the remainder).
C2_ConcurrentTriggers ==
    (Quiescent /\ ~errorLogged) =>
       \A key \in Keys :
          /\ Published(key) = Stored(key) \div maxMsgBuffer
          /\ Published(key) * maxMsgBuffer + message_counters[key] = Stored(key)

\* C7: threshold 3, three plain-text main-stream messages in chat 42: exactly
\* one SummarizeEvent, it is {chat 42, topic null}, and the counter of
\* (42, null) is 0 afterwards.
C7_EndToEndNullTopic ==
    (/\ Quiescent /\ ~errorLogged
     /\ maxMsgBuffer = 3
     /\ Len(messages) = 3
     /\ \A i \in DOMAIN messages :
           messages[i].chat_id = 42 /\ messages[i].topic_id = Ptr(0))
    => /\ summarizeTopic = <<SummarizeEvent(42, Nil)>>
       /\ message_counters[<<42, Nil>>] = 0

\* a message that handleMessage must drop
Discarded(msg) ==
    \/ ~msg.hasText
    \/ msg.fromBot
    \/ msg.chat \notin allowed_chats

UncheckedMessages ==
    {m \in [chat : Chats \cup {0}, thread : {0}, hasFrom : BOOLEAN,
            from : Senders \cup {0}, hasText : BOOLEAN, fromBot : BOOLEAN,
            isMention : {FALSE}] :
        ~m.hasFrom => (m.from = 0 /\ ~m.fromBot)}

\* the next update is handled only after the previous handler returned
handleMessage_ReceiveUnchecked(t) ==
    /\ Quiescent
    /\ \E m \in UncheckedMessages, allowErr \in BOOLEAN :
          handleMessage_Filter(t, m, allowErr)

NextUnchecked ==
    \/ \E t \in TaskIds : handleMessage_ReceiveUnchecked(t)
    \/ \E t \in TaskIds : handleMessage_Save(t)
    \/ \E t \in TaskIds : handleMessage_Increment(t)
    \/ \E t \in TaskIds : handleMessage_Reset(t)
    \/ \E t \in TaskIds : publishSummarizeEvent(t)

SpecUnchecked == InitIngestion /\ [][NextUnchecked]_vars

\* the required identifiers of a message are present and not zero
HasIdentifiers(msg) == msg.hasFrom /\ msg.chat # 0 /\ msg.from # 0

\* C15: validation before side effects. A message without a sender, with
\* chat id 0 or with sender id 0 is rejected before any side effect and its
\* handler ends normally: no handler panics, none is past the filter with
\* such a message, and no stored row or event has a zero identifier.
C15_ValidationBeforeSideEffects ==
    /\ \A t \in TaskIds :
          /\ tasks[t].pc # "panic"
          /\ tasks[t].pc \in {"save", "inc", "reset", "publish"} =>
                HasIdentifiers(tasks[t].msg)
    /\ \A i \in DOMAIN messages :
          messages[i].chat_id # 0 /\ messages[i].user_id # 0
    /\ \A i \in DOMAIN summarizeTopic : summarizeTopic[i].ChatID # 0


\* C27: no threshold crossing is lost. A handler that has reset the counter
\* of its key publishes a SummarizeEvent for exactly that (chat, topic); a
\* handler whose reset fails publishes nothing and leaves the counter at its
\* value, which is at or above the threshold.
C27_NoCrossingLost ==
    [][\A t \in TaskIds :
          /\ (tasks[t].pc = "publish" /\ tasks'[t].pc # "publish")
                => summarizeTopic' =
                      Append(summarizeTopic,
                             SummarizeEvent(tasks[t].msg.chat,
                                            getTopicID(tasks[t].msg)))
          /\ (tasks[t].pc = "reset" /\ tasks'[t].pc = "done")
                => /\ summarizeTopic' = summarizeTopic
                   /\ message_counters' = message_counters
                   /\ message_counters[KeyOf(tasks[t].msg)] >= maxMsgBuffer]_vars


\* the message of the update is a row of the messages table
IsStored(msg) ==
    \E j \in DOMAIN messages :
       /\ messages[j].chat_id = msg.chat
       /\ messages[j].topic_id = getTopicID(msg)
       /\ messages[j].user_id = msg.from
       /\ ~messages[j].is_bot

\* a handler past SaveMessage, or a mention goroutine that has not published
PastSave(t) ==
    \/ tasks[t].pc \in {"inc", "reset", "publish"}
    \/ tasks[t].mention \notin {NoMsg, SpentMention}

\* C28: persist-first ingestion. A handler is past SaveMessage only with its
\* message stored; while nothing is stored no counter is above 0 and no
\* event is published; every published MentionEvent has its message in the
\* store; a handler whose SaveMessage fails ends without an increment, a
\* mention goroutine or an event.
C28_PersistFirst ==
    /\ [](/\ \A t \in TaskIds : PastSave(t) =>
                (IsStored(tasks[t].msg) \/ IsStored(tasks[t].mention))
          /\ Cardinality({t \in TaskIds : PastSave(t)}) <= Len(messages)
          /\ Len(mentionTopic) <= Len(messages)
          /\ \A i \in DOMAIN mentionTopic :
                \E j \in DOMAIN messages :
                   /\ messages[j].chat_id = mentionTopic[i].ChatID
                   /\ messages[j].topic_id = mentionTopic[i].TopicID
                   /\ messages[j].user_id = mentionTopic[i].UserID
          /\ messages = <<>> =>
                /\ \A k \in Keys : message_counters[k] = 0
                /\ summarizeTopic = <<>>
                /\ mentionTopic = <<>>)
    /\ [][\A t \in TaskIds :
             (tasks[t].pc = "save" /\ tasks'[t].pc # "save"
                /\ messages' = messages)
                => /\ tasks'[t].pc = "done"
                   /\ tasks'[t].mention = NoMsg
                   /\ message_counters' = message_counters
                   /\ summarizeTopic' = summarizeTopic
                   /\ mentionTopic' = mentionTopic]_vars

\* a MentionEvent was published for the one message that is in the store
C28_Witness ==
    /\ Len(mentionTopic) = 1
    /\ Len(messages) = 1
    /\ messages[1].chat_id = mentionTopic[1].ChatID
    /\ messages[1].topic_id = mentionTopic[1].TopicID
    /\ \E t \in TaskIds : tasks[t].mention = SpentMention


\* some handler has incremented the counter of the key and not yet reset it
BetweenIncrementAndReset(k) ==
    \E t \in TaskIds : tasks[t].pc = "reset" /\ KeyOf(tasks[t].msg) = k

\* C30: counter bound. The Message Counter of every (chat, topic) is between
\* 0 and the threshold, and below the threshold whenever no handler for the
\* key is between its increment and its reset.
C30_CounterBound ==
    \A k \in Keys :
       /\ message_counters[k] \in 0..maxMsgBuffer
       /\ ~BetweenIncrementAndReset(k) => message_counters[k] <= maxMsgBuffer - 1


(* --------------------------- summarization ----------------------------- *)
\* rows that reach the messages table: user messages carry the thread id
\* of getTopicID, bot replies the thread that was used (nil after fallback)
StoredRows ==
    [id : {0}, chat_id : Chats, topic_id : {Ptr(v) : v \in Threads},
     user_id : Senders, is_bot : {FALSE}]
    \cup [id : {0}, chat_id : Chats, topic_id : {Nil},
          user_id : {99}, is_bot : {TRUE}]

\* keys of user_profiles in the LLM response; "x" is not a number
UserIDStrings == {"1", "x"}

\* strconv.ParseInt(userIDStr, 10, 64): <<value, ok>>
ParseInt(str) ==
    IF str = "1" THEN <<1, TRUE>> ELSE <<0, FALSE>>

\* a grouping key that drops hasValue: nil and &0 collide
NewTopicKey_valueOnly(topicID) ==
    [hasValue |-> TRUE, value |-> IF topicID = Nil THEN 0 ELSE topicID[1]]

NewTopicKey(topicID) ==
    IF topicID = Nil
    THEN [hasValue |-> FALSE, value |-> 0]
    ELSE [hasValue |-> TRUE, value |-> topicID[1]]

\* the *int64 rebuilt from a TopicKey in summarizeTopicMessages
TopicIDOf(topicKey) ==
    IF topicKey.hasValue THEN Ptr(topicKey.value) ELSE Nil

SetMax(S) == CHOOSE m \in S : \A x \in S : x <= m

RECURSIVE Descending(_, _)
\* the n largest elements of S, largest first
Descending(S, n) ==
    IF n <= 0 \/ S = {} THEN <<>>
    ELSE <<SetMax(S)>> \o Descending(S \ {SetMax(S)}, n - 1)

\* SELECT ... WHERE chat_id = $1 ORDER BY id DESC LIMIT $2, as row ids
GetLatestMessagesByChatID(chatID, limit) ==
    Descending({i \in DOMAIN messages : messages[i].chat_id = chatID}, limit)

\* the filter of SummarizeChatTopic, for a concrete and for a nil topic
TopicMatches(msg, topicID) ==
    IF topicID # Nil
    THEN msg.topic_id # Nil /\ msg.topic_id[1] = topicID[1]
    ELSE msg.topic_id = Nil

FilterByTopic(ids, topicID) ==
    SelectSeq(ids, LAMBDA i : TopicMatches(messages[i], topicID))

\* topicGroups of SummarizeChat: one group per TopicKey, in fetch order
TopicGroups(ids) ==
    {[key |-> k,
      msgs |-> SelectSeq(ids, LAMBDA i : NewTopicKey(messages[i].topic_id) = k)]
       : k \in {NewTopicKey(messages[ids[j]].topic_id) : j \in DOMAIN ids}}

Reverse(seq) == [i \in 1..Len(seq) |-> seq[Len(seq) + 1 - i]]

\* SELECT DISTINCT chat_id FROM messages WHERE created_at >= $1; created_at
\* grows with id, so the window is the rows from some id on
GetActiveChatIDs(sinceID) ==
    {messages[i].chat_id : i \in {j \in DOMAIN messages : j >= sinceID}}

HasChatSummary(chatID, topicID) ==
    \E r \in chat_summaries : r.chat_id = chatID /\ r.topic_id = topicID

\* CONSTRAINT unique_chat_topic UNIQUE (chat_id, topic_id): two rows are in
\* conflict when both columns are equal, and a NULL topic_id equals nothing
ViolatesUniqueChatTopic(r, row) ==
    /\ r.chat_id = row.chat_id
    /\ row.topic_id # Nil
    /\ r.topic_id = row.topic_id

\* the row is in conflict with a stored row
Conflicts(row) ==
    \E r \in chat_summaries : ViolatesUniqueChatTopic(r, row)

\* the row in conflict gets the new summary and keeps its other columns
SaveChatSummary_partial(row) ==
    IF Conflicts(row)
    THEN {IF ViolatesUniqueChatTopic(r, row)
          THEN [r EXCEPT !.batch = row.batch, !.summary = row.summary]
          ELSE r : r \in chat_summaries}
    ELSE chat_summaries \cup {[row EXCEPT !.id = nextSummaryID]}

\* upsert through the unique constraint: the row in conflict is updated and
\* keeps its id, without a conflict a row is inserted
SaveChatSummary(row) ==
    IF Conflicts(row)
    THEN {IF ViolatesUniqueChatTopic(r, row)
          THEN [row EXCEPT !.id = r.id] ELSE r : r \in chat_summaries}
    ELSE chat_summaries \cup {[row EXCEPT !.id = nextSummaryID]}

\* the newest row of (chat, topic) in chat_summaries, or nil
GetLatestChatSummaryByTopic(chatID, topicID) ==
    LET rows == {r \in chat_summaries :
                    r.chat_id = chatID /\ r.topic_id = topicID}
    IN IF rows = {} THEN Nil
       ELSE Ptr(CHOOSE r \in rows : \A q \in rows : q.id <= r.id)

\* a plain INSERT without the conflict clause
SaveUserSummary_insert(row) == user_summaries \cup {row}

\* INSERT ... ON CONFLICT (chat_id, user_id) DO UPDATE
SaveUserSummary(row) ==
    {r \in user_summaries :
        ~(r.chat_id = row.chat_id /\ r.user_id = row.user_id)} \cup {row}

\* the `if err != nil { return }` after gptClient.Summarize, switched off
SummarizeFailed_ignored(err) == FALSE

SummarizeFailed(err) == err

\* SummarizeChat goes on with the next topic group whatever the result was
AfterGroup_abort(res) ==
    IF res # "ok" THEN "returned"
    ELSE IF bulk.groups = {} THEN "chats" ELSE "groups"

AfterGroup(res) == IF bulk.groups = {} THEN "chats" ELSE "groups"

\* summarizeTopicMessages returns res to its caller
Finish(w, res, wrote) ==
    /\ attempts' = [attempts EXCEPT ![w] =
          [IdleAttempt EXCEPT !.wrote = wrote, !.llmErr = (res = "llmErr")]]
    /\ bulk' =
          IF w = "midnight"
          THEN LET g == [chat |-> attempts[w].chatID,
                         key |-> attempts[w].topicKey]
               IN [bulk EXCEPT
                     !.pc = AfterGroup(res),
                     !.saved = IF res = "ok" THEN @ \cup {g} ELSE @,
                     !.failed = IF res # "ok" THEN @ \cup {g} ELSE @]
          ELSE bulk

\* a message row is persisted (Listener.handleMessage or saveBotMessage)
StoreMessage ==
    /\ Len(messages) < MaxMessages
    /\ \E row \in StoredRows : messages' = SaveMessage(row)
    /\ UNCHANGED <<maxMsgBuffer, allowed_chats, message_counters,
                   summarizeTopic, mentionTopic, tasks, errorLogged>>
    /\ UNCHANGED <<sumVars, restVars>>

\* a SummarizeEvent is published: by ingestion for the thread of a message,
\* by the admin trigger without a topic
PublishSummarize ==
    /\ Len(summarizeTopic) < MaxEvents
    /\ \E c \in Chats, topicID \in TopicPtrs :
          summarizeTopic' = Append(summarizeTopic, SummarizeEvent(c, topicID))
    /\ UNCHANGED <<maxMsgBuffer, allowed_chats, messages, message_counters,
                   mentionTopic, tasks, errorLogged>>
    /\ UNCHANGED <<sumVars, restVars>>

\* HandleSummarizeEvent -> SummarizeChatTopic up to summarizeTopicMessages
SummarizeChatTopic ==
    /\ attempts["summarize"].pc = "idle"
    /\ summarizeCursor < Len(summarizeTopic)
    /\ summarizeCursor' = summarizeCursor + 1
    /\ LET event == summarizeTopic[summarizeCursor + 1]
           found == FilterByTopic(
                       GetLatestMessagesByChatID(event.ChatID,
                                                 summarizeMaxMessages),
                       event.TopicID)
       IN \E err \in BOOLEAN :
             /\ attempts' = [attempts EXCEPT !["summarize"] =
                   IF err \/ Len(found) = 0 THEN IdleAttempt
                   ELSE [IdleAttempt EXCEPT
                           !.pc = "read", !.chatID = event.ChatID,
                           !.topicKey = NewTopicKey(event.TopicID),
                           !.batch = Reverse(found)]]
             /\ errorLogged' = (errorLogged \/ err)
    /\ UNCHANGED <<maxMsgBuffer, allowed_chats, messages, message_counters,
                   summarizeTopic, mentionTopic, tasks>>
    /\ UNCHANGED restVars
    /\ UNCHANGED <<summarizeMaxMessages, chat_summaries, user_summaries,
                   nextSummaryID, bulk>>

\* GetLatestChatSummaryByTopic and GetLatestUserSummary of each sender
summarizeTopicMessages_Read(w) ==
    /\ attempts[w].pc = "read"
    /\ \E err \in BOOLEAN :
          IF err
          THEN Finish(w, "err", FALSE)
          ELSE /\ attempts' =
                    [attempts EXCEPT
                        ![w].pc = "llm",
                        ![w].existing =
                           GetLatestChatSummaryByTopic(
                              attempts[w].chatID,
                              TopicIDOf(attempts[w].topicKey))]
               /\ UNCHANGED bulk
    /\ UNCHANGED <<ingestVars, restVars>>
    /\ UNCHANGED <<summarizeMaxMessages, chat_summaries, user_summaries,
                   nextSummaryID, summarizeCursor>>

\* gptClient.Summarize: an error (call failed or JSON did not parse) or a
\* response whose user_profiles has any set of keys
summarizeTopicMessages_Summarize(w) ==
    /\ attempts[w].pc = "llm"
    /\ \E err \in BOOLEAN, profiles \in SUBSET UserIDStrings :
          /\ err => profiles = {}
          /\ IF SummarizeFailed(err)
             THEN Finish(w, "llmErr", FALSE)
             ELSE /\ attempts' = [attempts EXCEPT ![w].pc = "saveChat",
                                                  ![w].profiles = profiles,
                                                  ![w].llmErr = err]
                  /\ UNCHANGED bulk
    /\ UNCHANGED <<ingestVars, restVars>>
    /\ UNCHANGED <<summarizeMaxMessages, chat_summaries, user_summaries,
                   nextSummaryID, summarizeCursor>>

\* repo.SaveChatSummary with the topic id of the group; the summary text and
\* the topics of the row are those of the response to this attempt
summarizeTopicMessages_SaveChat(w) ==
    /\ attempts[w].pc = "saveChat"
    /\ \E err \in BOOLEAN :
          IF err
          THEN /\ Finish(w, "err", FALSE)
               /\ UNCHANGED <<chat_summaries, nextSummaryID>>
          ELSE LET topicID == TopicIDOf(attempts[w].topicKey)
                   row == [id |-> 0, chat_id |-> attempts[w].chatID,
                           topic_id |-> topicID, batch |-> attempts[w].batch,
                           summary |-> w, topics_json |-> w]
               IN /\ chat_summaries' = SaveChatSummary(row)
                  /\ nextSummaryID' =
                        IF Conflicts(row)
                        THEN nextSummaryID ELSE nextSummaryID + 1
                  /\ IF attempts[w].profiles = {}
                     THEN Finish(w, "ok", TRUE)
                     ELSE /\ attempts' = [attempts EXCEPT ![w].pc = "saveUser",
                                                          ![w].wrote = TRUE]
                          /\ UNCHANGED bulk
    /\ UNCHANGED <<ingestVars, restVars>>
    /\ UNCHANGED <<summarizeMaxMessages, user_summaries, summarizeCursor>>

\* one iteration of the loop over response.UserProfiles
summarizeTopicMessages_SaveUser(w) ==
    /\ attempts[w].pc = "saveUser"
    /\ \E str \in attempts[w].profiles, err \in BOOLEAN :
          LET parsed == ParseInt(str)
              rest == attempts[w].profiles \ {str}
              Continue ==
                 IF rest = {}
                 THEN Finish(w, "ok", TRUE)
                 ELSE /\ attempts' = [attempts EXCEPT ![w].profiles = rest]
                      /\ UNCHANGED bulk
          IN IF ~parsed[2]
             THEN /\ ~err
                  /\ Continue
                  /\ UNCHANGED user_summaries
             ELSE IF err
             THEN /\ Finish(w, "err", TRUE)
                  /\ UNCHANGED user_summaries
             ELSE /\ user_summaries' =
                        SaveUserSummary([chat_id |-> attempts[w].chatID,
                                         user_id |-> parsed[1],
                                         batch |-> attempts[w].batch])
                  /\ Continue
    /\ UNCHANGED <<ingestVars, restVars>>
    /\ UNCHANGED <<summarizeMaxMessages, chat_summaries, nextSummaryID,
                   summarizeCursor>>

\* SummarizeAllActiveChats starts: GetActiveChatIDs(since)
SummarizeAllActiveChats_Begin ==
    \E err \in BOOLEAN, sinceID \in 1..(Len(messages) + 1) :
       bulk' = IF err
               THEN [IdleBulk EXCEPT !.pc = "returned", !.result = "err"]
               ELSE [IdleBulk EXCEPT !.pc = "chats",
                                     !.since = sinceID,
                                     !.active = GetActiveChatIDs(sinceID),
                                     !.chats = GetActiveChatIDs(sinceID)]

\* HandleMidnightEvent -> SummarizeAllActiveChats: GetActiveChatIDs
SummarizeAllActiveChats ==
    /\ bulk.pc = "idle"
    /\ SummarizeAllActiveChats_Begin
    /\ UNCHANGED <<ingestVars, restVars>>
    /\ UNCHANGED <<summarizeMaxMessages, chat_summaries, user_summaries,
                   nextSummaryID, summarizeCursor, attempts>>

\* SummarizeChat for the next chat id: fetch and group by topic
SummarizeChat ==
    /\ bulk.pc = "chats"
    /\ \E c \in bulk.chats, err \in BOOLEAN :
          LET ids == GetLatestMessagesByChatID(c, summarizeMaxMessages)
              groups == IF err THEN {} ELSE TopicGroups(ids)
          IN bulk' = [bulk EXCEPT
                        !.chats = @ \ {c},
                        !.groups = groups,
                        !.planned = @ \cup {[chat |-> c, key |-> g.key]
                                               : g \in groups},
                        !.pc = IF groups = {} THEN "chats" ELSE "groups"]
    /\ UNCHANGED <<ingestVars, restVars>>
    /\ UNCHANGED <<summarizeMaxMessages, chat_summaries, user_summaries,
                   nextSummaryID, summarizeCursor, attempts>>

\* the loop over topicGroups calls summarizeTopicMessages for a group
SummarizeChat_Group ==
    /\ bulk.pc = "groups"
    /\ \E g \in bulk.groups :
          /\ bulk' = [bulk EXCEPT !.groups = @ \ {g}, !.pc = "attempt"]
          /\ attempts' = [attempts EXCEPT !["midnight"] =
                [IdleAttempt EXCEPT
                   !.pc = "read",
                   !.chatID = messages[g.msgs[1]].chat_id,
                   !.topicKey = g.key, !.batch = Reverse(g.msgs)]]
    /\ UNCHANGED <<ingestVars, restVars>>
    /\ UNCHANGED <<summarizeMaxMessages, chat_summaries, user_summaries,
                   nextSummaryID, summarizeCursor>>

\* the loop over chat ids is exhausted: SummarizeAllActiveChats returns nil
SummarizeAllActiveChats_Return ==
    /\ bulk.pc = "chats"
    /\ bulk.chats = {}
    /\ bulk' = [bulk EXCEPT !.pc = "returned", !.result = "nil"]
    /\ UNCHANGED <<ingestVars, restVars>>
    /\ UNCHANGED <<summarizeMaxMessages, chat_summaries, user_summaries,
                   nextSummaryID, summarizeCursor, attempts>>

NextSum ==
    \/ StoreMessage
    \/ PublishSummarize
    \/ SummarizeChatTopic
    \/ \E w \in Workers : summarizeTopicMessages_Read(w)
    \/ \E w \in Workers : summarizeTopicMessages_Summarize(w)
    \/ \E w \in Workers : summarizeTopicMessages_SaveChat(w)
    \/ \E w \in Workers : summarizeTopicMessages_SaveUser(w)
    \/ SummarizeAllActiveChats
    \/ SummarizeChat
    \/ SummarizeChat_Group
    \/ SummarizeAllActiveChats_Return

\* ingestion is at rest while the summarization paths are explored
InitSummarization ==
    /\ Init
    /\ extraction = NewExtraction(<<"@", "w">>, <<"a">>)
    /\ maxMsgBuffer = MaxThreshold
    /\ recentMessagesLimit = MaxRecentLimit
    /\ scheduler = NewScheduler(0)

SpecSum == InitSummarization /\ [][NextSum]_vars

\* the rows of a batch all belong to the chat and the topic `topicID`
SameScope(batch, chatID, topicID) ==
    \A j \in DOMAIN batch :
       /\ messages[batch[j]].chat_id = chatID
       /\ messages[batch[j]].topic_id = topicID

\* C3: topic isolation. In every summarization attempt, on demand or for a
\* topic group of the midnight pass, the messages of the batch given to the
\* LLM all have the chat id and the topic id of the chat-summary row that is
\* written; nil is a topic of its own, distinct from 0.
C3_TopicIsolation ==
    /\ \A w \in Workers :
          attempts[w].pc # "idle" =>
             SameScope(attempts[w].batch, attempts[w].chatID,
                       TopicIDOf(attempts[w].topicKey))
    /\ \A r \in chat_summaries : SameScope(r.batch, r.chat_id, r.topic_id)

\* a summary of the nil topic was written from message 2 alone although
\* message 1 of the same chat, in thread 0, was in the fetched window
C3_Witness ==
    /\ summarizeMaxMessages = MaxSummarizeMax
    /\ Len(messages) = 2
    /\ messages[1].chat_id = messages[2].chat_id
    /\ messages[1].topic_id = Ptr(0)
    /\ messages[2].topic_id = Nil
    /\ \E r \in chat_summaries :
          /\ r.chat_id = messages[2].chat_id
          /\ r.topic_id = Nil
          /\ r.batch = <<2>>

\* C6: partial-failure isolation. When a (chat, topic) group of a bulk pass
\* fails, the pass still visits every active chat, every other group that
\* was formed is summarized and its chat summary persisted, and the pass
\* returns no error.
C6_PartialFailureIsolation ==
    bulk.pc = "returned" =>
       /\ bulk.failed # {} => bulk.result = "nil"
       /\ bulk.result = "nil" =>
             /\ bulk.chats = {}
             /\ bulk.groups = {}
             /\ bulk.planned = bulk.saved \cup bulk.failed
             /\ bulk.saved \cap bulk.failed = {}
             /\ \A g \in bulk.saved : HasChatSummary(g.chat, TopicIDOf(g.key))

\* a pass over two groups returned: one group failed, the other is stored
C6_Witness ==
    /\ bulk.pc = "returned"
    /\ bulk.result = "nil"
    /\ Cardinality(bulk.failed) = 1
    /\ Cardinality(bulk.saved) = 1
    /\ \A g \in bulk.failed : ~HasChatSummary(g.chat, TopicIDOf(g.key))
    /\ \A g \in bulk.saved : HasChatSummary(g.chat, TopicIDOf(g.key))

\* C9: parse-failure atomicity. An attempt whose Summarize call returned an
\* error is over with an error and has written neither the chat-summary row
\* nor a user-summary row; no attempt writes before its Summarize call.
C9_ParseFailureAtomicity ==
    \A w \in Workers :
       /\ attempts[w].llmErr =>
             /\ attempts[w].pc = "idle"
             /\ ~attempts[w].wrote
       /\ attempts[w].pc \in {"read", "llm"} => ~attempts[w].wrote

\* the on-demand attempt ended on a Summarize error while the store, which
\* holds a summary written by the midnight pass, has no row of that attempt
C9_Witness ==
    /\ attempts["summarize"].llmErr
    /\ attempts["summarize"].pc = "idle"
    /\ Cardinality(chat_summaries) = 1
    /\ bulk.saved # {}
    /\ user_summaries = {}

\* the stored messages of exactly the scope (chatID, topicID), as row ids
ScopeRows(chatID, topicID) ==
    {i \in DOMAIN messages : /\ messages[i].chat_id = chatID
                             /\ messages[i].topic_id = topicID}

\* C18: summarization batch. When a SummarizeEvent on (chat, topic) is
\* handled without a fetch error and the scope holds n >= 1 stored messages,
\* an attempt is started whose batch is exactly the min(n, M) most recent
\* messages of that scope in ascending id order.
C18_SummarizationBatch ==
    [][(summarizeCursor' = summarizeCursor + 1 /\ ~errorLogged')
          => LET event == summarizeTopic[summarizeCursor + 1]
                 scope == ScopeRows(event.ChatID, event.TopicID)
             IN  scope # {}
                    => /\ attempts'["summarize"].pc = "read"
                       /\ attempts'["summarize"].batch =
                             Reverse(Descending(scope, summarizeMaxMessages))]_vars

\* the topics of the chat with a message in the lookback window of the pass
ActiveTopics(chatID) ==
    {messages[i].topic_id :
        i \in {j \in DOMAIN messages : /\ j >= bulk.since
                                        /\ messages[j].chat_id = chatID}}

\* C19: midnight coverage. When the bulk pass has fetched and grouped the
\* messages of an active chat, every topic of that chat with a message in
\* the lookback window is one of the groups that get a summarization
\* attempt.
C19_MidnightCoverage ==
    [][(bulk.pc = "chats" /\ bulk'.pc = "groups")
          => \A c \in bulk.chats \ bulk'.chats :
                \A topicID \in ActiveTopics(c) :
                   [chat |-> c, key |-> NewTopicKey(topicID)]
                      \in bulk'.planned]_vars

\* C24: user-summary key. Every write of a user summary leaves exactly one
\* row for its (chat id, user id), which holds the output of the attempt
\* that wrote last, whatever the topic of that attempt; the other rows are
\* not changed.
C24_UserSummaryKey ==
    [][user_summaries' # user_summaries
          => \E w \in Workers, r \in user_summaries' :
                /\ attempts[w].pc = "saveUser"
                /\ attempts'[w] # attempts[w]
                /\ r.chat_id = attempts[w].chatID
                /\ r.batch = attempts[w].batch
                /\ user_summaries' \ {r} \subseteq user_summaries
                /\ \A q \in user_summaries' :
                      (q.chat_id = r.chat_id /\ q.user_id = r.user_id)
                         => q = r]_vars

\* two topics of one chat were summarized and the chat has one user-summary
\* row, written by the attempt for one of the topics
C24_Witness ==
    \E r1 \in chat_summaries, r2 \in chat_summaries :
       /\ r1.chat_id = r2.chat_id
       /\ r1.topic_id # r2.topic_id
       /\ bulk.pc = "returned"
       /\ Cardinality(bulk.saved) = 2
       /\ user_summaries =
             {[chat_id |-> r1.chat_id, user_id |-> 1, batch |-> r2.batch]}

\* the authors of the messages of a batch
SendersOf(batch) == {messages[batch[j]].user_id : j \in DOMAIN batch}

\* C29: user summaries are written only for senders of the batch. Every
\* user-summary row that an attempt writes belongs to the attempt's chat and
\* to a user who authored a message of the batch given to the LLM; a step
\* that skips an unparsable user id writes nothing and the attempt goes on.
C29_OnlyBatchSenders ==
    [][\A w \in Workers :
          (attempts[w].pc = "saveUser" /\ attempts'[w] # attempts[w])
             => \A r \in user_summaries' \ user_summaries :
                   /\ r.chat_id = attempts[w].chatID
                   /\ r.user_id \in SendersOf(attempts[w].batch)]_vars

GetMessagesAfterIDInTopic(chatID, topicID, afterID) ==
    SelectSeq([i \in 1..Len(messages) |-> i],
              LAMBDA i : /\ messages[i].chat_id = chatID
                         /\ messages[i].topic_id = topicID
                         /\ i > afterID)

\* lastSummaryID: 0, or the id of the loaded chat summary
LastSummaryID(chatSummary) ==
    IF chatSummary = Nil THEN 0 ELSE chatSummary[1].id

\* the list is handed on as it was read
Truncate_none(recentMessages, limit) == recentMessages

\* the oldest `limit` entries are kept
Truncate_oldest(recentMessages, limit) ==
    IF Len(recentMessages) > limit
    THEN SubSeq(recentMessages, 1, limit)
    ELSE recentMessages

\* recentMessages[len(recentMessages)-limit:] when longer than limit
Truncate(recentMessages, limit) ==
    IF Len(recentMessages) > limit
    THEN SubSeq(recentMessages, Len(recentMessages) - limit + 1,
                Len(recentMessages))
    ELSE recentMessages

\* BuildContextForResponse: the chat summary and the user summary are read
BuildContextForResponse_Summaries ==
    /\ builder.pc \in {"idle", "done"}
    /\ \E c \in Chats, topicID \in TopicPtrs, err \in BOOLEAN :
          builder' =
             IF err THEN IdleBuilder
             ELSE [IdleBuilder EXCEPT
                     !.pc = "loaded", !.ChatID = c, !.TopicID = topicID,
                     !.chatSummary = GetLatestChatSummaryByTopic(c, topicID),
                     !.lastSummaryID =
                        LastSummaryID(GetLatestChatSummaryByTopic(c, topicID))]
    /\ UNCHANGED <<ingestVars, sumVars>>
    /\ UNCHANGED <<recentMessagesLimit, delivery, scheduler, extraction>>

\* BuildContextForResponse: the recent messages are read and cut to the limit
BuildContextForResponse_Recent ==
    /\ builder.pc = "loaded"
    /\ \E err \in BOOLEAN :
          builder' =
             IF err THEN IdleBuilder
             ELSE [builder EXCEPT
                     !.pc = "done",
                     !.RecentMessages =
                        Truncate(GetMessagesAfterIDInTopic(
                                    builder.ChatID, builder.TopicID,
                                    builder.lastSummaryID),
                                 recentMessagesLimit)]
    /\ UNCHANGED <<ingestVars, sumVars>>
    /\ UNCHANGED <<recentMessagesLimit, delivery, scheduler, extraction>>

NextCtx ==
    \/ StoreMessage
    \/ PublishSummarize
    \/ SummarizeChatTopic
    \/ summarizeTopicMessages_Read("summarize")
    \/ summarizeTopicMessages_Summarize("summarize")
    \/ summarizeTopicMessages_SaveChat("summarize")
    \/ summarizeTopicMessages_SaveUser("summarize")
    \/ BuildContextForResponse_Summaries
    \/ BuildContextForResponse_Recent

\* mentions are answered while messages arrive and summaries are written
InitCtx ==
    /\ Init
    /\ extraction = NewExtraction(<<"@", "w">>, <<"a">>)
    /\ maxMsgBuffer = MaxThreshold
    /\ scheduler = NewScheduler(0)

SpecCtx == InitCtx /\ [][NextCtx]_vars

\* C4: context-tail bound. The RecentMessages returned by
\* BuildContextForResponse are at most RecentMessagesLimit many and none of
\* them has an id less than or equal to the id of the loaded chat summary.
C4_ContextTailBound ==
    builder.pc = "done" =>
       /\ Len(builder.RecentMessages) <= recentMessagesLimit
       /\ \A j \in DOMAIN builder.RecentMessages :
             builder.RecentMessages[j] > builder.lastSummaryID

\* a context was built after a summary with id 1 had been loaded: message 1
\* of the scope is left out, message 2 is returned
C4_Witness ==
    /\ builder.pc = "done"
    /\ builder.lastSummaryID = 1
    /\ Len(messages) = 2
    /\ \A i \in 1..2 : /\ messages[i].chat_id = builder.ChatID
                       /\ messages[i].topic_id = builder.TopicID
    /\ builder.RecentMessages = <<2>>

\* the messages of a batch, as a set of row ids
BatchOf(row) == {row.batch[j] : j \in DOMAIN row.batch}

\* C21: the tail holds only unsummarized messages. The RecentMessages
\* returned by BuildContextForResponse contain no message of the batch from
\* which the loaded chat summary was produced.
C21_TailUnsummarized ==
    (builder.pc = "done" /\ builder.chatSummary # Nil)
       => \A j \in DOMAIN builder.RecentMessages :
             builder.RecentMessages[j] \notin BatchOf(builder.chatSummary[1])

\* the stored messages of the builder's scope that come after the loaded
\* chat summary's id, as row ids
Qualifying ==
    {i \in ScopeRows(builder.ChatID, builder.TopicID) :
        i > builder.lastSummaryID}

\* C22: context-tail selection. BuildContextForResponse returns, in
\* ascending id order, the `limit` qualifying messages of the exact scope
\* with the highest ids when more than `limit` qualify, and all qualifying
\* messages otherwise.
C22_TailSelection ==
    [][(builder.pc = "loaded" /\ builder'.pc = "done")
          => builder'.RecentMessages =
                Reverse(Descending(Qualifying, recentMessagesLimit))]_vars

\* two messages of the scope qualified with limit 1: the newer one is the tail
C22_Witness ==
    /\ builder.pc = "done"
    /\ recentMessagesLimit = 1
    /\ builder.lastSummaryID = 0
    /\ Cardinality(ScopeRows(builder.ChatID, builder.TopicID)) = 2
    /\ builder.RecentMessages = <<2>>

\* summaries are written by the on-demand handler and the midnight pass
\* while mentions are answered
NextRace ==
    \/ PublishSummarize
    \/ SummarizeChatTopic
    \/ \E w \in Workers : summarizeTopicMessages_Read(w)
    \/ \E w \in Workers : summarizeTopicMessages_Summarize(w)
    \/ \E w \in Workers : summarizeTopicMessages_SaveChat(w)
    \/ \E w \in Workers : summarizeTopicMessages_SaveUser(w)
    \/ SummarizeAllActiveChats
    \/ SummarizeChat
    \/ SummarizeChat_Group
    \/ SummarizeAllActiveChats_Return
    \/ BuildContextForResponse_Summaries
    \/ BuildContextForResponse_Recent

\* the messages table holds two user messages of thread 1 of chat 7, or two
\* bot replies of chat 7 stored without a topic
StoredBefore ==
    {<<[id |-> 1, chat_id |-> 7, topic_id |-> Ptr(1), user_id |-> 1,
        is_bot |-> FALSE],
       [id |-> 2, chat_id |-> 7, topic_id |-> Ptr(1), user_id |-> 1,
        is_bot |-> FALSE]>>,
     <<[id |-> 1, chat_id |-> 7, topic_id |-> Nil, user_id |-> 99,
        is_bot |-> TRUE],
       [id |-> 2, chat_id |-> 7, topic_id |-> Nil, user_id |-> 99,
        is_bot |-> TRUE]>>}

\* ingestion is at rest, the messages were stored earlier
InitRace ==
    /\ maxMsgBuffer = MaxThreshold
    /\ allowed_chats = {42}
    /\ messages \in StoredBefore
    /\ message_counters = [k \in Keys |-> 0]
    /\ summarizeTopic = <<>>
    /\ mentionTopic = <<>>
    /\ tasks = [t \in TaskIds |-> NewTask]
    /\ errorLogged = FALSE
    /\ InitSum
    /\ InitRest
    /\ extraction = NewExtraction(<<"@", "w">>, <<"a">>)
    /\ recentMessagesLimit = MaxRecentLimit
    /\ scheduler = NewScheduler(0)

SpecRace == InitRace /\ [][NextRace]_vars

\* the summary text and the topics of the row come from one response
Complete(row) == row.summary = row.topics_json

\* the newest row of (chat, topic) in the set of rows
Newest(rows, chatID, topicID) ==
    LET scope == {r \in rows : r.chat_id = chatID /\ r.topic_id = topicID}
    IN CHOOSE r \in scope : \A q \in scope : q.id <= r.id

C26_NoLostUpdate ==
    [][\A w \in Workers :
          (/\ attempts[w].pc = "saveChat"
           /\ attempts'[w] # attempts[w]
           /\ chat_summaries' # chat_summaries)
             => attempts[w].existing =
                   GetLatestChatSummaryByTopic(
                      attempts[w].chatID,
                      TopicIDOf(attempts[w].topicKey))]_vars

SendResults == {"ok", "thread not found", "error"}

\* params.MessageThreadID after the topic check (0 is the unset int)
MessageThreadID(topicID, hasTopics) ==
    IF topicID # Nil /\ (hasTopics \/ topicID[1] > 0) THEN topicID[1] ELSE 0

\* the topic is kept for the stored row although the general chat was used
TopicAfterFallback_kept(topicID) == topicID

\* `topicID = nil` after the fallback send went through
TopicAfterFallback(topicID) == Nil

\* every failed send is answered with the retry
FallsBack_anyError(topicID, res) == res # "ok"

\* `err != nil && topicID != nil` and the error names a missing thread
FallsBack(topicID, res) == topicID # Nil /\ res = "thread not found"

\* sendResponse is over and HandleMentionEvent returns nil or an error
Delivered(d, ret) == [d EXCEPT !.pc = "idle", !.returned = ret]

MentionResponses ==
    [hasReaction : BOOLEAN, ShouldReply : BOOLEAN, hasText : BOOLEAN]

\* `mentionResponse.ShouldReply && mentionResponse.Response != ""`
SendsText(response) == response.ShouldReply /\ response.hasText

\* a failed reaction ends the handler with the error
ReturnsOnReactionError_fatal(err) == err

\* the error of setReaction is logged as a warning and not returned
ReturnsOnReactionError(err) == FALSE

\* HandleMentionEvent after the reaction block: sendResponse when a text is
\* to be sent, `return nil` otherwise
AfterReaction(d) ==
    IF SendsText(d.response)
    THEN [d EXCEPT !.pc = IF d.TopicID = Nil THEN "send" ELSE "check"]
    ELSE Delivered(d, "nil")

\* HandleMentionEvent up to the reaction block: context and GenerateResponse;
\* topic_id is optional in the payload of a MentionEvent
HandleMentionEvent ==
    /\ delivery.pc = "idle"
    /\ delivery.handled < MaxDeliveries
    /\ \E c \in Chats, topicID \in TopicPtrs, err \in BOOLEAN,
          response \in MentionResponses :
          LET d == [IdleDelivery EXCEPT
                      !.handled = delivery.handled + 1,
                      !.ChatID = c,
                      !.TopicID = topicID, !.topicID = topicID,
                      !.generated = TRUE, !.response = response]
          IN delivery' =
                IF err
                THEN [IdleDelivery EXCEPT
                        !.handled = delivery.handled + 1,
                        !.returned = "err"]
                ELSE IF response.hasReaction
                THEN [d EXCEPT !.pc = "react"]
                ELSE AfterReaction(d)
    /\ UNCHANGED <<ingestVars, sumVars>>
    /\ UNCHANGED <<recentMessagesLimit, builder, scheduler, extraction>>

\* HandleMentionEvent: setReaction for a response with a reaction emoji
HandleMentionEvent_setReaction ==
    /\ delivery.pc = "react"
    /\ \E err \in BOOLEAN :
          LET d == [delivery EXCEPT
                      !.reaction = IF err THEN "failed" ELSE "ok"]
          IN delivery' = IF ReturnsOnReactionError(err)
                         THEN Delivered(d, "err")
                         ELSE AfterReaction(d)
    /\ UNCHANGED <<ingestVars, sumVars>>
    /\ UNCHANGED <<recentMessagesLimit, builder, scheduler, extraction>>

\* sendResponse: IsChatTopicEnabled, a failed check counts as topics enabled
sendResponse_IsChatTopicEnabled ==
    /\ delivery.pc = "check"
    /\ \E enabled \in BOOLEAN, err \in BOOLEAN :
          LET hasTopics == IF err THEN TRUE ELSE enabled
          IN delivery' = [delivery EXCEPT
                !.pc = "send",
                !.MessageThreadID = MessageThreadID(delivery.topicID, hasTopics)]
    /\ UNCHANGED <<ingestVars, sumVars>>
    /\ UNCHANGED <<recentMessagesLimit, builder, scheduler, extraction>>

\* sendResponse: the first bot.SendMessage
sendResponse_SendMessage ==
    /\ delivery.pc = "send"
    /\ \E res \in SendResults :
          LET sent == [delivery EXCEPT
                         !.sends = Append(@, [MessageThreadID |->
                                                 delivery.MessageThreadID,
                                              result |-> res])]
          IN delivery' =
                IF res = "ok" THEN [sent EXCEPT !.pc = "save"]
                ELSE IF FallsBack(delivery.topicID, res)
                THEN [sent EXCEPT !.pc = "fallback"]
                ELSE Delivered(sent, "err")
    /\ UNCHANGED <<ingestVars, sumVars>>
    /\ UNCHANGED <<recentMessagesLimit, builder, scheduler, extraction>>

\* sendResponse: the retry with fallbackParams, which carry no thread
sendResponse_Fallback ==
    /\ delivery.pc = "fallback"
    /\ \E res \in SendResults :
          LET sent == [delivery EXCEPT
                         !.sends = Append(@, [MessageThreadID |-> 0,
                                              result |-> res])]
          IN delivery' =
                IF res # "ok" THEN Delivered(sent, "err")
                ELSE [sent EXCEPT
                        !.pc = "save",
                        !.topicID = TopicAfterFallback(delivery.topicID)]
    /\ UNCHANGED <<ingestVars, sumVars>>
    /\ UNCHANGED <<recentMessagesLimit, builder, scheduler, extraction>>

\* saveBotMessage: GetMe and SaveMessage; a failure is only logged
saveBotMessage ==
    /\ delivery.pc = "save"
    /\ \E err \in BOOLEAN :
          IF err
          THEN /\ delivery' = Delivered(delivery, "nil")
               /\ UNCHANGED messages
          ELSE /\ messages' = SaveMessage(
                     [id |-> 0, chat_id |-> delivery.ChatID,
                      topic_id |-> delivery.topicID,
                      user_id |-> 99, is_bot |-> TRUE])
               /\ delivery' = [Delivered(delivery, "nil") EXCEPT
                                 !.persisted = Len(messages) + 1]
    /\ UNCHANGED <<maxMsgBuffer, allowed_chats, message_counters,
                   summarizeTopic, mentionTopic, tasks, errorLogged>>
    /\ UNCHANGED sumVars
    /\ UNCHANGED <<recentMessagesLimit, builder, scheduler, extraction>>

NextDelivery ==
    \/ HandleMentionEvent
    \/ HandleMentionEvent_setReaction
    \/ sendResponse_IsChatTopicEnabled
    \/ sendResponse_SendMessage
    \/ sendResponse_Fallback
    \/ saveBotMessage

InitDelivery ==
    /\ Init
    /\ extraction = NewExtraction(<<"@", "w">>, <<"a">>)
    /\ maxMsgBuffer = MaxThreshold
    /\ summarizeMaxMessages = MaxSummarizeMax
    /\ recentMessagesLimit = MaxRecentLimit
    /\ scheduler = NewScheduler(0)

SpecDelivery == InitDelivery /\ [][NextDelivery]_vars

\* the first send of the current MentionEvent, which has a topic, failed
\* with thread not found
FirstSendThreadNotFound ==
    /\ delivery.TopicID # Nil
    /\ Len(delivery.sends) >= 1
    /\ delivery.sends[1].result = "thread not found"

\* C5: fallback delivery. After a first send that failed with "thread not
\* found" there is exactly one more send, without a thread; when that one
\* succeeds the persisted bot message has a nil topic id; one MentionEvent
\* never has more than two send attempts.
C5_FallbackDelivery ==
    /\ Len(delivery.sends) <= 2
    /\ (FirstSendThreadNotFound /\ delivery.pc # "fallback") =>
          /\ Len(delivery.sends) = 2
          /\ delivery.sends[2].MessageThreadID = 0
    /\ (FirstSendThreadNotFound /\ delivery.persisted # 0) =>
          /\ delivery.sends[2].result = "ok"
          /\ messages[delivery.persisted].is_bot
          /\ messages[delivery.persisted].topic_id = Nil
    /\ (Len(delivery.sends) = 2) => FirstSendThreadNotFound

\* a reply into thread 1 failed with thread not found, went out without a
\* thread and was stored
C5_Witness ==
    /\ delivery.pc = "idle"
    /\ Len(delivery.sends) = 2
    /\ delivery.sends[1].MessageThreadID = 1
    /\ delivery.sends[1].result = "thread not found"
    /\ delivery.sends[2].result = "ok"
    /\ delivery.persisted # 0
    /\ delivery.TopicID = Ptr(1)

\* the event is over with an error, nothing was stored for it
EndedInError ==
    /\ delivery.pc = "idle"
    /\ delivery.returned = "err"
    /\ delivery.persisted = 0

\* C13: terminal delivery errors. A first send that fails with another
\* error than "thread not found", any failed send of an event without a
\* topic, and a failed fallback send each end the event: no further send,
\* no bot message persisted, and the handler returns an error.
C13_TerminalDeliveryErrors ==
    /\ (Len(delivery.sends) >= 1 /\ delivery.sends[1].result = "error") =>
          (Len(delivery.sends) = 1 /\ EndedInError)
    /\ (Len(delivery.sends) >= 1 /\ delivery.TopicID = Nil
          /\ delivery.sends[1].result # "ok") =>
          (Len(delivery.sends) = 1 /\ EndedInError)
    /\ (Len(delivery.sends) = 2 /\ delivery.sends[2].result # "ok") =>
          EndedInError
    /\ delivery.returned = "err" => delivery.persisted = 0

\* the second event ended on an error of the send into thread 1, after the
\* reply to the first event had been stored: no second row was added
C13_Witness ==
    /\ delivery.handled = 2
    /\ delivery.TopicID = Ptr(1)
    /\ Len(delivery.sends) = 1
    /\ delivery.sends[1].MessageThreadID = 1
    /\ delivery.sends[1].result = "error"
    /\ EndedInError
    /\ Len(messages) = 1


\* the thread a send went to, as a topic id: no thread id is the nil topic
ThreadUsed(send) ==
    IF send.MessageThreadID = 0 THEN Nil ELSE Ptr(send.MessageThreadID)

\* C14: bot-message persistence. Once an event is over, a reply whose last
\* send succeeded is stored as a row with is-bot = true whose topic id is the
\* thread of that send: the requested topic when the first send went into
\* it, nil when the reply went to the general stream.
C14_BotMessagePersistence ==
    (/\ delivery.pc = "idle"
     /\ Len(delivery.sends) >= 1
     /\ delivery.sends[Len(delivery.sends)].result = "ok") =>
       /\ delivery.persisted # 0
       /\ messages[delivery.persisted].is_bot
       /\ messages[delivery.persisted].chat_id = delivery.ChatID
       /\ messages[delivery.persisted].topic_id =
             ThreadUsed(delivery.sends[Len(delivery.sends)])

\* the last send of the event failed
LastSendFailed ==
    /\ Len(delivery.sends) >= 1
    /\ delivery.sends[Len(delivery.sends)].result # "ok"

\* C23: the reaction is attempted first and is non-fatal. For a response
\* with a reaction emoji no text send happens before the reaction attempt;
\* whatever the reaction's result, once the handler is over the text was
\* sent if and only if should-reply is true and the text is non-empty, and
\* the handler returned an error if and only if the send failed.
C23_ReactionNonFatal ==
    delivery.generated =>
       /\ (delivery.response.hasReaction /\ Len(delivery.sends) >= 1)
             => delivery.reaction # "none"
       /\ delivery.pc = "react" => Len(delivery.sends) = 0
       /\ delivery.pc = "idle" =>
             /\ (Len(delivery.sends) >= 1) <=> SendsText(delivery.response)
             /\ (delivery.returned = "err") <=> LastSendFailed
             /\ delivery.response.hasReaction => delivery.reaction # "none"

\* the reaction failed, the reply was still sent and the handler returned nil
C23_Witness ==
    /\ delivery.generated
    /\ delivery.pc = "idle"
    /\ delivery.reaction = "failed"
    /\ Len(delivery.sends) = 1
    /\ delivery.sends[1].result = "ok"
    /\ delivery.returned = "nil"

(* ------------------------- midnight scheduler -------------------------- *)
\* the clock counts slots; a minute has MinuteLen slots, a day DayLen minutes
MinuteOfDay(now) == (now \div MinuteLen) % DayLen
DayOf(now) == now \div (MinuteLen * DayLen)

\* now.Hour() == 0 && now.Minute() == 0
IsMidnight(now) == MinuteOfDay(now) = 0

\* the run is followed until minute 00:00 of the last day is over
LastTickDue == (MaxDays * DayLen + 1) * MinuteLen

\* `case now := <-ticker.C`: the tick that was due arrives, at its nominal
\* time or later; at 00:00 the MidnightEvent is published, a failure of the
\* publisher is only logged
runMidnightScheduler_Tick ==
    /\ scheduler.pc = "wait"
    /\ scheduler.due <= LastTickDue
    /\ \E delay \in 0..MaxDelay, err \in BOOLEAN :
          LET now == scheduler.due + delay
          IN /\ ~IsMidnight(now) => ~err
             /\ scheduler' = [scheduler EXCEPT
                   !.now = now,
                   !.due = @ + MinuteLen,
                   !.busy = FALSE,
                   !.pc = IF IsMidnight(now) THEN "reset" ELSE "wait",
                   !.published[DayOf(now)] =
                      IF IsMidnight(now) /\ ~err THEN @ + 1 ELSE @]
    /\ UNCHANGED <<ingestVars, sumVars>>
    /\ UNCHANGED <<recentMessagesLimit, builder, delivery, extraction>>

\* ResetCountersForAllChats after the publish; a store error is only logged
ResetCountersForAllChats ==
    /\ scheduler.pc = "reset"
    /\ \E err \in BOOLEAN :
          IF err
          THEN /\ scheduler' = [scheduler EXCEPT !.pc = "wait", !.busy = TRUE]
               /\ UNCHANGED message_counters
          ELSE /\ scheduler' = [scheduler EXCEPT
                     !.pc = "wait", !.busy = TRUE,
                     !.resets[DayOf(scheduler.now)] = @ + 1]
               /\ message_counters' = ResetAllMessageCounters
    /\ UNCHANGED <<maxMsgBuffer, allowed_chats, messages, summarizeTopic,
                   mentionTopic, tasks, errorLogged>>
    /\ UNCHANGED sumVars
    /\ UNCHANGED <<recentMessagesLimit, builder, delivery, extraction>>

\* the publish and the reset took longer than the interval: the ticker
\* dropped the tick that was due meanwhile
runMidnightScheduler_DroppedTick ==
    /\ scheduler.pc = "wait"
    /\ scheduler.busy
    /\ scheduler.due <= LastTickDue
    /\ scheduler' = [scheduler EXCEPT !.due = @ + MinuteLen, !.busy = FALSE]
    /\ UNCHANGED <<ingestVars, sumVars>>
    /\ UNCHANGED <<recentMessagesLimit, builder, delivery, extraction>>

NextSched ==
    \/ runMidnightScheduler_Tick
    \/ ResetCountersForAllChats
    \/ runMidnightScheduler_DroppedTick

\* the process may have been started at any slot of a minute
InitSched ==
    /\ Init
    /\ extraction = NewExtraction(<<"@", "w">>, <<"a">>)
    /\ maxMsgBuffer = MaxThreshold
    /\ summarizeMaxMessages = MaxSummarizeMax
    /\ recentMessagesLimit = MaxRecentLimit

SpecSched == InitSched /\ [][NextSched]_vars

\* minute 00:00 of day d has passed and its check has been handled
MidnightOver(d) ==
    /\ scheduler.pc = "wait"
    /\ scheduler.now >= (d * DayLen + 1) * MinuteLen

\* C8: the midnight rollover fires exactly once per day. For every day of
\* the run one MidnightEvent is published and the reset of all counters is
\* executed once, never zero times and never twice.
C8_MidnightExactlyOnce ==
    \A d \in Days :
       /\ scheduler.published[d] <= 1
       /\ scheduler.resets[d] <= 1
       /\ MidnightOver(d) =>
             /\ scheduler.published[d] = 1
             /\ scheduler.resets[d] = 1
(* ---------------------- midnight fire and handler ---------------------- *)
RECURSIVE Total(_, _)
\* the sum of the per-day counts f[1] .. f[d]
Total(f, d) == IF d = 0 THEN 0 ELSE f[d] + Total(f, d - 1)

\* a MidnightEvent that was published is delivered to HandleMidnightEvent,
\* which starts the bulk pass; the scheduler does not wait for it
HandleMidnightEvent_Deliver ==
    /\ bulk.pc \in {"idle", "returned"}
    /\ scheduler.handled < Total(scheduler.published, MaxDays)
    /\ SummarizeAllActiveChats_Begin
    /\ scheduler' = [scheduler EXCEPT !.handled = @ + 1]
    /\ UNCHANGED ingestVars
    /\ UNCHANGED <<summarizeMaxMessages, chat_summaries, user_summaries,
                   nextSummaryID, summarizeCursor, attempts>>
    /\ UNCHANGED <<recentMessagesLimit, builder, delivery, extraction>>

NextMidnight ==
    \/ runMidnightScheduler_Tick
    \/ ResetCountersForAllChats
    \/ runMidnightScheduler_DroppedTick
    \/ HandleMidnightEvent_Deliver
    \/ SummarizeAllActiveChats_Return

SpecMidnight == InitSched /\ [][NextMidnight]_vars

\* C16: midnight ordering. The reset of all counters of a fire does not
\* take effect before the bulk pass of that fire has run: there are never
\* more executed resets than bulk passes that were started.
C16_PassBeforeReset ==
    Total(scheduler.resets, MaxDays) <= scheduler.handled
(* --------------------------- user query -------------------------------- *)
RECURSIVE ReplaceAll_first(_, _)
\* only the first occurrence of old is removed
ReplaceAll_first(s, old) ==
    IF old = <<>> \/ Len(s) < Len(old) THEN s
    ELSE IF SubSeq(s, 1, Len(old)) = old
         THEN SubSeq(s, Len(old) + 1, Len(s))
         ELSE <<Head(s)>> \o ReplaceAll_first(Tail(s), old)

RECURSIVE ReplaceAll(_, _)
\* strings.ReplaceAll(s, old, ""): the non-overlapping occurrences of old
\* are removed from left to right in one pass; an empty old changes nothing
ReplaceAll(s, old) ==
    IF old = <<>> \/ Len(s) < Len(old) THEN s
    ELSE IF SubSeq(s, 1, Len(old)) = old
         THEN ReplaceAll(SubSeq(s, Len(old) + 1, Len(s)), old)
         ELSE <<Head(s)>> \o ReplaceAll(Tail(s), old)

IsSpace(c) == c = " "

RECURSIVE TrimLeft(_)
TrimLeft(s) ==
    IF s # <<>> /\ IsSpace(Head(s)) THEN TrimLeft(Tail(s)) ELSE s

RECURSIVE TrimRight(_)
TrimRight(s) ==
    IF s # <<>> /\ IsSpace(s[Len(s)])
    THEN TrimRight(SubSeq(s, 1, Len(s) - 1))
    ELSE s

\* strings.TrimSpace
TrimSpace(s) == TrimRight(TrimLeft(s))

extractUserQuery(text, mention, default) ==
    LET query == TrimSpace(ReplaceAll(text, mention))
    IN  IF query = <<>> THEN default ELSE query

\* old occurs in s as a contiguous piece
Occurs(s, old) ==
    \E i \in 1..(Len(s) - Len(old) + 1) : SubSeq(s, i, i + Len(old) - 1) = old

\* a mention entity of the text equals the mention token, or the message
\* replies to a message of the bot
isMentionOrReply(text, reply, mention) ==
    \/ mention # <<>> /\ Occurs(text, mention)
    \/ reply # Nil /\ reply[1].IsBot

\* the MentionEvent built by publishMentionEvent: the reply fields are not
\* assigned and keep their zero value nil
NewMentionEvent(text, reply) ==
    [Text |-> text, ReplyToText |-> Nil, ReplyToIsBot |-> Nil]

\* handleMention -> publishMentionEvent for a message that mentions the bot
\* or replies to it
publishMentionEvent ==
    /\ extraction.pc = "idle"
    /\ \E text \in Texts, reply \in ReplyToMessages :
          /\ isMentionOrReply(text, reply, extraction.MentionUsername)
          /\ extraction' = [extraction EXCEPT
                               !.pc = "published",
                               !.ReplyToMessage = reply,
                               !.event = NewMentionEvent(text, reply)]
    /\ UNCHANGED <<ingestVars, sumVars>>
    /\ UNCHANGED <<recentMessagesLimit, builder, delivery, scheduler>>

\* HandleMentionEvent extracts the query from the text of the event and
\* copies the reply context of the event into the request
HandleMentionEvent_extractUserQuery ==
    /\ extraction.pc = "published"
    /\ extraction' =
          [extraction EXCEPT
              !.pc = "done",
              !.text = extraction.event.Text,
              !.query = extractUserQuery(extraction.event.Text,
                                         extraction.MentionUsername,
                                         extraction.DefaultResponse),
              !.ReplyToText = extraction.event.ReplyToText,
              !.ReplyToIsBot = extraction.event.ReplyToIsBot]
    /\ UNCHANGED <<ingestVars, sumVars>>
    /\ UNCHANGED <<recentMessagesLimit, builder, delivery, scheduler>>

NextQuery ==
    \/ publishMentionEvent
    \/ HandleMentionEvent_extractUserQuery

InitQuery ==
    /\ Init
    /\ maxMsgBuffer = MaxThreshold
    /\ summarizeMaxMessages = MaxSummarizeMax
    /\ recentMessagesLimit = MaxRecentLimit
    /\ scheduler = NewScheduler(0)

SpecQuery == InitQuery /\ [][NextQuery]_vars

RECURSIVE OnlyMentionsAndSpace(_, _)
\* s is a concatenation of mention tokens and white space
OnlyMentionsAndSpace(s, mention) ==
    \/ s = <<>>
    \/ /\ IsSpace(Head(s))
       /\ OnlyMentionsAndSpace(Tail(s), mention)
    \/ /\ mention # <<>>
       /\ Len(s) >= Len(mention)
       /\ SubSeq(s, 1, Len(mention)) = mention
       /\ OnlyMentionsAndSpace(SubSeq(s, Len(mention) + 1, Len(s)), mention)

\* the text is "<mention_token> <rest>" with a trimmed, non-empty rest that
\* holds no mention token
MentionThenRest(text, mention, rest) ==
    /\ mention # <<>>
    /\ rest # <<>>
    /\ text = mention \o <<" ">> \o rest
    /\ TrimSpace(rest) = rest
    /\ ~Occurs(rest, mention)

\* C17: mention extraction. For the text "<mention_token> <rest>" the query
\* is <rest>; for every text made only of mention tokens and white space the
\* query is the default phrase; with a non-empty default phrase the query is
\* never empty.
C17_MentionExtraction ==
    extraction.pc = "done" =>
       LET text == extraction.text
           mention == extraction.MentionUsername
           default == extraction.DefaultResponse
           rest == SubSeq(text, Len(mention) + 2, Len(text))
       IN  /\ MentionThenRest(text, mention, rest)
                 => extraction.query = rest
           /\ OnlyMentionsAndSpace(text, mention)
                 => extraction.query = default
           /\ default # <<>> => extraction.query # <<>>

\* a text of two mention tokens and white space was answered by the default
C17_Witness ==
    /\ extraction.pc = "done"
    /\ extraction.MentionUsername = <<"@", "w">>
    /\ extraction.text = <<"@", "w", " ", "@", "w", " ">>
    /\ extraction.DefaultResponse = <<"a">>
    /\ extraction.query = <<"a">>

\* C20: reply context is carried end to end. When the message that
\* triggered the MentionEvent replies to another message, the request built
\* for the event carries the text of the replied-to message and the flag
\* whether its author was the bot.
C20_ReplyContext ==
    (extraction.pc = "done" /\ extraction.ReplyToMessage # Nil)
       => /\ extraction.ReplyToText = Ptr(extraction.ReplyToMessage[1].Text)
          /\ extraction.ReplyToIsBot = Ptr(extraction.ReplyToMessage[1].IsBot)
====
